---- MODULE Spec2Model ----
(***************************************************************************)
(* UpGoV ground station, version Beta 1.3 (src/unnamed/part_000).          *)
(*                                                                         *)
(* The sketch is one thread: setup() runs once and blocks in the handshake *)
(* loop, then loop() is called for ever.  The state is the sketch's        *)
(* globals and function statics.  C strings and Arduino Strings are        *)
(* sequences of one-character strings; NUL is the terminating zero byte.   *)
(* Time is millis(), in milliseconds.                                      *)
(***************************************************************************)
EXTENDS Integers, Sequences, FiniteSets, TLC

(***************************************************************************)
(* Program constants                                                       *)
(***************************************************************************)
BUTTON_A == 0
BUTTON_B == 1
BUTTON_C == 2
MAX_MESSAGE_LENGTH == 20
RADIO_PACKET_SIZE == 20
GROUND_STATION_ADDR == 1
UPGOV_ADDR == 2
DEBOUNCE_DELAY == 50
PRESSED == 0
NOT_PRESSED == 1
LOG_LINES == 6
SETUP_DELAY == 4020
ATTEMPT_DELAY == 1000
REPLY_TIMEOUT == 2000
LOOP_DELAY == 10
CONNECT_CMP_LEN == 7
PREFIX_LEN == 3

Buttons == {BUTTON_A, BUTTON_B, BUTTON_C}
Levels == {PRESSED, NOT_PRESSED}
States == {"START_UP", "FAULT", "READY", "ARMED", "LOGGING", "POST_FLIGHT", "ERROR"}
Battery == {"FULL", "OK", "LOWBAT", "CRITICAL"}
OledDataType == {"STATUS", "ALTITUDE", "ACCELERATION", "DURATION", "BATTERY1", "BATTERY2"}

(***************************************************************************)
(* Bounds of the model                                                     *)
(***************************************************************************)
MaxAttempts == 2
MaxTicks == 4
MaxHandshakeTicks == 1
MaxFrameTicks == 3
MaxPromptTicks == 8
MaxRadioError == 1
MaxAppends == 7
MaxPolls == 7
MaxDecodeTicks == 3
MaxButtonATicks == 4
MaxStartUpTicks == 2
MaxConsoleTicks == 4
MaxAnswerTicks == 5

(***************************************************************************)
(* String literals of the sketch                                           *)
(***************************************************************************)
NUL == "NUL"
S_connect == <<"c", "o", "n", "n", "e", "c", "t">>
S_arm == <<"a", "r", "m">>
S_disarm == <<"d", "i", "s", "a", "r", "m">>
S_again == <<"a", "g", "a", "i", "n">>
S_no == <<"n", "o">>
S_RadioInitError == <<"R", "a", "d", "i", "o", " ", "i", "n", "i", "t", " ", "e", "r", "r", "o", "r">>
S_ErrorSettingFreq == <<"E", "r", "r", "o", "r", " ", "s", "e", "t", "t", "i", "n", "g", " ", "f", "r", "e", "q">>
S_RadioInitialized == <<"R", "a", "d", "i", "o", " ", "i", "n", "i", "t", "i", "a", "l", "i", "z", "e", "d">>
S_WaitingRadioConnect == <<"W", "a", "i", "t", "i", "n", "g", " ", "r", "a", "d", "i", "o", " ", "c", "o", "n", "n", "e", "c", "t">>
S_Connected == <<"C", "o", "n", "n", "e", "c", "t", "e", "d">>
S_LauchAgain == <<"L", "a", "u", "c", "h", " ", "a", "g", "a", "i", "n", "?">>
S_InvalidMessage == <<"I", "n", "v", "a", "l", "i", "d", " ", "m", "e", "s", "s", "a", "g", "e">>
S_ERROR_ == <<"E", "R", "R", "O", "R", ":", " ">>
S_FAULT == <<"F", "A", "U", "L", "T">>
S_READY == <<"R", "E", "A", "D", "Y">>
S_ARMED == <<"A", "R", "M", "E", "D">>
S_LOGGING == <<"L", "O", "G", "G", "I", "N", "G">>
S_POST_FLIGHT == <<"P", "O", "S", "T", "_", "F", "L", "I", "G", "H", "T">>
S_FULL == <<"F", "U", "L", "L">>
S_OK == <<"O", "K">>
S_LOW == <<"L", "O", "W">>
S_POOR == <<"P", "O", "O", "R">>
P_MS == <<"M", "S", ":">>
P_ER == <<"E", "R", ":">>
P_ST == <<"S", "T", ":">>
P_AL == <<"A", "L", ":">>
P_AC == <<"A", "C", ":">>
P_DU == <<"D", "U", ":">>
P_AT == <<"A", "T", ":">>
P_B1 == <<"B", "1", ":">>
P_B2 == <<"B", "2", ":">>

(***************************************************************************)
(* C and Arduino String primitives, computed as the library computes them  *)
(***************************************************************************)
Min(S) == CHOOSE x \in S : \A y \in S : x <= y

\* The C string held in a byte array: the bytes before the first NUL.
CStr(bytes) ==
    LET z == {i \in 1..Len(bytes) : bytes[i] = NUL}
    IN  IF z = {} THEN bytes ELSE SubSeq(bytes, 1, Min(z) - 1)

\* strncpy(dst, src, n): at most n characters of src, the rest filled with NUL
\* (no NUL is written when src has n or more characters).
strncpy(src, n) == [i \in 1..n |-> IF i <= Len(src) THEN src[i] ELSE NUL]

\* strncmp(a, b, n) == 0 for byte arrays a, b (b a literal, NUL appended).
strncmpEq(a, b, n) ==
    LET ta == CStr(SubSeq(a, 1, IF Len(a) < n THEN Len(a) ELSE n))
        bz == b \o <<NUL>>
        tb == CStr(SubSeq(bz, 1, IF Len(bz) < n THEN Len(bz) ELSE n))
    IN  ta = tb

\* The receive call copies min(length of frame, size of dst) bytes to the
\* start of dst and leaves the other bytes of dst as they were.
recvInto(dst, data) ==
    [i \in 1..Len(dst) |-> IF i <= Len(data) THEN data[i] ELSE dst[i]]

\* String::startsWith
startsWith(s, prefix) ==
    /\ Len(s) >= Len(prefix)
    /\ SubSeq(s, 1, Len(prefix)) = prefix

\* String::remove(0, n)
removePrefix(s, n) == IF Len(s) <= n THEN <<>> ELSE SubSeq(s, n + 1, Len(s))

(***************************************************************************)
(* State                                                                   *)
(***************************************************************************)
VARIABLES
    pc,                 \* "setup", "handshake" (while (!connected)), "loop"
    now,                \* millis()
    connected,          \* setup(): bool connected
    radioPacket,        \* char radioPacket[20]
    buffer,             \* char buffer[MAX_MESSAGE_LENGTH]
    radioError,         \* int radioError
    AT_Recieved,        \* bool AT_Recieved
    buttonStates,       \* int buttonStates[3]
    lastButtonStates,   \* int lastButtonStates[3]
    lastDebounceTime,   \* unsigned long lastDebounceTime[3]
    currentState,       \* loop(): static states currentState
    currentBatteryStatus, \* loop(): static battery currentBatteryStatus
    lineNumber,         \* printOledMessage(): static uint8_t lineNumber
    lineMessage,        \* printOledMessage(): line0Message .. line5Message
    oledData,           \* text last printed in each field of display B
    \* observation of the last step (history, not read by the program)
    step,               \* which operation ran last
    sent,               \* frames handed to sendtoWait in the last step
    rxFrame,            \* frame received in the last step, or NoFrame
    decoded,            \* String message built from it, or NoFrame
    ev,                 \* ev[b]: buttonReleased(b) returned true in the last step
    polled,             \* polled[b]: calls of buttonReleased(b) in the last step
    attempts,           \* handshake attempts made
    ticks,              \* calls of loop() made
    appended,           \* lines passed to printOledMessage, oldest first
    polls,              \* calls of buttonReleased made by the filter harness
    answers,            \* "again"/"no" commands sent since the latest AT: event
    obs                 \* per button, what the samples of the filter harness show

vars == <<pc, now, connected, radioPacket, buffer, radioError, AT_Recieved,
          buttonStates, lastButtonStates, lastDebounceTime, currentState,
          currentBatteryStatus, lineNumber, lineMessage, oledData,
          step, sent, rxFrame, decoded, ev, polled, attempts, ticks, appended,
          polls, answers, obs>>

progVars == <<pc, now, connected, radioPacket, buffer, radioError, AT_Recieved,
              buttonStates, lastButtonStates, lastDebounceTime, currentState,
              currentBatteryStatus, lineNumber, lineMessage, oledData>>

\* An optional frame or String is a sequence of at most one element.
NoFrame == <<>>
NoCommand == <<>>
NoEvents == [b \in Buttons |-> FALSE]
NoPolls == [b \in Buttons |-> 0]

\* What the samples of one button show: the level of the latest sample, the
\* time of the first sample of the current run of equal samples, the stable
\* level the filter held when that run began, the time of the latest poll,
\* the release events emitted during the run and the time of the first of
\* them, and the earlier runs (latest first, at most three).
ObsInit ==
    [level |-> NOT_PRESSED, since |-> 0, stable0 |-> NOT_PRESSED,
     lastPoll |-> 0, stableBefore |-> NOT_PRESSED, events |-> 0,
     eventAt |-> 0, runs |-> <<>>]

Init ==
    /\ pc = "setup"
    /\ now = 0
    /\ connected = FALSE
    /\ radioPacket = [i \in 1..RADIO_PACKET_SIZE |-> NUL]
    /\ buffer = [i \in 1..MAX_MESSAGE_LENGTH |-> NUL]
    /\ radioError = 0
    /\ AT_Recieved = FALSE
    /\ buttonStates = [b \in Buttons |-> NOT_PRESSED]
    /\ lastButtonStates = [b \in Buttons |-> NOT_PRESSED]
    /\ lastDebounceTime = [b \in Buttons |-> 0]
    /\ currentState = "START_UP"
    /\ currentBatteryStatus = "CRITICAL"
    /\ lineNumber = 0
    /\ lineMessage = [i \in 0..(LOG_LINES - 1) |-> <<>>]
    /\ oledData = [t \in OledDataType |-> <<>>]
    /\ step = "init"
    /\ sent = <<>>
    /\ rxFrame = NoFrame
    /\ decoded = NoFrame
    /\ ev = NoEvents
    /\ polled = NoPolls
    /\ attempts = 0
    /\ ticks = 0
    /\ appended = <<>>
    /\ polls = 0
    /\ answers = 0
    /\ obs = [b \in Buttons |-> ObsInit]

(***************************************************************************)
(* printOledMessage: the scrolling log of display A                        *)
(***************************************************************************)
\* Mutation: a full log does not scroll, the last line is overwritten.
printOledMessage_NoScroll(log, message) ==
    IF log.lineNumber = LOG_LINES
    THEN [lineNumber |-> log.lineNumber,
          lineMessage |-> [log.lineMessage EXCEPT ![LOG_LINES - 1] = message]]
    ELSE [lineNumber |-> log.lineNumber + 1,
          lineMessage |-> [log.lineMessage EXCEPT ![log.lineNumber] = message]]

\* The statics of printOledMessage after one call, as a record.
printOledMessage(log, message) ==
    IF log.lineNumber = LOG_LINES
    THEN [lineNumber |-> log.lineNumber,
          lineMessage |->
              [i \in 0..(LOG_LINES - 1) |->
                  IF i < LOG_LINES - 1 THEN log.lineMessage[i + 1] ELSE message]]
    ELSE [lineNumber |-> log.lineNumber + 1,
          lineMessage |-> [log.lineMessage EXCEPT ![log.lineNumber] = message]]

TheLog == [lineNumber |-> lineNumber, lineMessage |-> lineMessage]

\* The lines appended so far, for the observer.
Remember(hist, lines) == hist \o lines

\* One call of printOledMessage on its own.
AppendLine(message) ==
    /\ Len(appended) < MaxAppends
    /\ LET r == printOledMessage(TheLog, message)
       IN  /\ lineNumber' = r.lineNumber
           /\ lineMessage' = r.lineMessage
    /\ appended' = Remember(appended, <<message>>)
    /\ step' = "append"
    /\ UNCHANGED <<pc, now, connected, radioPacket, buffer, radioError,
                   AT_Recieved, buttonStates, lastButtonStates, lastDebounceTime,
                   currentState, currentBatteryStatus, oledData, sent, rxFrame,
                   decoded, ev, polled, attempts, ticks, polls, answers, obs>>

\* Lines a caller may append as its n-th line: a text not appended before,
\* the first text again, or the empty string.
Digits == <<"1", "2", "3", "4", "5", "6", "7", "8", "9">>
TextOf(n) == <<"l", "i", "n", "e", Digits[n]>>
LogLines == {TextOf(Len(appended) + 1), TextOf(1), <<>>}

NextLog == \E m \in LogLines : AppendLine(m)

SpecLog == Init /\ [][NextLog]_vars

(***************************************************************************)
(* buttonReleased: the debounce filter                                     *)
(***************************************************************************)
TheButtons ==
    [buttonStates |-> buttonStates, lastButtonStates |-> lastButtonStates,
     lastDebounceTime |-> lastDebounceTime]

\* Mutation: the window counts as elapsed at exactly DEBOUNCE_DELAY.
DebounceElapsed_AtLeast(t, last) == (t - last) >= DEBOUNCE_DELAY

\* Mutation: the filter does not wait for the stability window.
DebounceElapsed_NoWait(t, last) == (t - last) >= 0

\* if ((millis() - lastDebounceTime[button]) > DEBOUNCE_DELAY)
DebounceElapsed(t, last) == (t - last) > DEBOUNCE_DELAY

\* Mutation: a settled released level is reported on every poll, not only
\* on the poll that commits it.
buttonReleased_NoEdge(bt, button, reading, t) ==
    LET changed == reading # bt.lastButtonStates[button]
        ldt == IF changed THEN [bt.lastDebounceTime EXCEPT ![button] = t]
                          ELSE bt.lastDebounceTime
        lbs == IF changed THEN [bt.lastButtonStates EXCEPT ![button] = reading]
                          ELSE bt.lastButtonStates
        settled == (t - ldt[button]) > DEBOUNCE_DELAY
        bs == IF settled THEN [bt.buttonStates EXCEPT ![button] = reading]
                         ELSE bt.buttonStates
    IN  [ret |-> settled /\ reading = NOT_PRESSED,
         buttonStates |-> bs, lastButtonStates |-> lbs, lastDebounceTime |-> ldt]

\* Mutation: a pressed sample is committed by the poll that first sees it;
\* only the released level has to last for the window.
buttonReleased_CommitsPressAtOnce(bt, button, reading, t) ==
    LET changed == reading # bt.lastButtonStates[button]
        ldt == IF changed THEN [bt.lastDebounceTime EXCEPT ![button] = t]
                          ELSE bt.lastDebounceTime
        lbs == IF changed THEN [bt.lastButtonStates EXCEPT ![button] = reading]
                          ELSE bt.lastButtonStates
        commit == /\ reading = PRESSED \/ DebounceElapsed(t, ldt[button])
                  /\ reading # bt.buttonStates[button]
        bs == IF commit THEN [bt.buttonStates EXCEPT ![button] = reading]
                        ELSE bt.buttonStates
    IN  [ret |-> commit /\ bs[button] = NOT_PRESSED,
         buttonStates |-> bs, lastButtonStates |-> lbs, lastDebounceTime |-> ldt]

\* Mutation: every commit is reported, of a pressed level too.
buttonReleased_AnyCommit(bt, button, reading, t) ==
    LET changed == reading # bt.lastButtonStates[button]
        ldt == IF changed THEN [bt.lastDebounceTime EXCEPT ![button] = t]
                          ELSE bt.lastDebounceTime
        lbs == IF changed THEN [bt.lastButtonStates EXCEPT ![button] = reading]
                          ELSE bt.lastButtonStates
        commit == (t - ldt[button]) > DEBOUNCE_DELAY /\ reading # bt.buttonStates[button]
        bs == IF commit THEN [bt.buttonStates EXCEPT ![button] = reading]
                        ELSE bt.buttonStates
    IN  [ret |-> commit,
         buttonStates |-> bs, lastButtonStates |-> lbs, lastDebounceTime |-> ldt]

\* One call buttonReleased(button), reading the raw level `reading` at
\* millis() = t: the return value and the three arrays after the call.
buttonReleased(bt, button, reading, t) ==
    LET changed == reading # bt.lastButtonStates[button]
        ldt == IF changed THEN [bt.lastDebounceTime EXCEPT ![button] = t]
                          ELSE bt.lastDebounceTime
        lbs == IF changed THEN [bt.lastButtonStates EXCEPT ![button] = reading]
                          ELSE bt.lastButtonStates
        commit == DebounceElapsed(t, ldt[button]) /\ reading # bt.buttonStates[button]
        bs == IF commit THEN [bt.buttonStates EXCEPT ![button] = reading]
                        ELSE bt.buttonStates
    IN  [ret |-> commit /\ bs[button] = NOT_PRESSED,
         buttonStates |-> bs, lastButtonStates |-> lbs, lastDebounceTime |-> ldt]

\* The observer's record of one button after a poll that sampled `reading`
\* at time t while the filter's stable level was `stable`, and returned ret.
Observe(o, reading, t, stable, ret) ==
    IF reading # o.level
    THEN [level |-> reading, since |-> t, stable0 |-> stable, lastPoll |-> t,
          stableBefore |-> stable,
          events |-> IF ret THEN 1 ELSE 0, eventAt |-> IF ret THEN t ELSE 0,
          runs |-> SubSeq(<<[level |-> o.level, since |-> o.since,
                             stable0 |-> o.stable0]>> \o o.runs,
                          1, IF Len(o.runs) < 3 THEN Len(o.runs) + 1 ELSE 3)]
    ELSE [o EXCEPT !.lastPoll = t,
                   !.stableBefore = stable,
                   !.events = IF ret THEN o.events + 1 ELSE o.events,
                   !.eventAt = IF ret /\ o.events = 0 THEN t ELSE o.eventAt]

\* Time between two polls of the filter harness.
PollTimes == {10, 50, 60}

\* The filter polled on its own: one call of buttonReleased(b), dt
\* milliseconds after the previous one.  A run of the harness polls one button.
Poll(b, reading, dt) ==
    /\ polls < MaxPolls
    /\ \A c \in Buttons \ {b} : obs[c].lastPoll = 0
    /\ LET t == now + dt
           r == buttonReleased(TheButtons, b, reading, t)
       IN  /\ now' = t
           /\ buttonStates' = r.buttonStates
           /\ lastButtonStates' = r.lastButtonStates
           /\ lastDebounceTime' = r.lastDebounceTime
           /\ ev' = [NoEvents EXCEPT ![b] = r.ret]
           /\ polled' = [NoPolls EXCEPT ![b] = 1]
           /\ obs' = [obs EXCEPT ![b] = Observe(obs[b], reading, t, buttonStates[b], r.ret)]
    /\ polls' = polls + 1
    /\ step' = "poll"
    /\ UNCHANGED <<pc, connected, radioPacket, buffer, radioError, AT_Recieved,
                   currentState, currentBatteryStatus, lineNumber, lineMessage,
                   oledData, sent, rxFrame, decoded, attempts, ticks, appended, answers>>

NextDebounce == \E b \in Buttons, reading \in Levels, dt \in PollTimes : Poll(b, reading, dt)

SpecDebounce == Init /\ [][NextDebounce]_vars

(***************************************************************************)
(* sendRadioMessage                                                        *)
(***************************************************************************)
TheRadio == [radioPacket |-> radioPacket, radioError |-> radioError]

\* Mutation: radioError is incremented after every send.
sendRadioMessage_CountsAlways(radio, message, address, ack) ==
    LET pkt == strncpy(message, RADIO_PACKET_SIZE)
    IN  [ret |-> ack,
         radioPacket |-> pkt,
         radioError |-> radio.radioError + 1,
         frame |-> <<[data |-> pkt, to |-> address, ack |-> ack]>>]

\* Mutation: the message is not copied to radioPacket, what radioPacket
\* holds is sent.
sendRadioMessage_NoCopy(radio, message, address, ack) ==
    [ret |-> ack,
     radioPacket |-> radio.radioPacket,
     radioError |-> IF ack THEN radio.radioError ELSE radio.radioError + 1,
     frame |-> <<[data |-> radio.radioPacket, to |-> address, ack |-> ack]>>]

\* sendRadioMessage(message, address) when sendtoWait reports `ack`: the
\* return value, the two globals after the call and the frame put on the air.
sendRadioMessage(radio, message, address, ack) ==
    LET pkt == strncpy(message, RADIO_PACKET_SIZE)
    IN  [ret |-> ack,
         radioPacket |-> pkt,
         radioError |-> IF ack THEN radio.radioError ELSE radio.radioError + 1,
         frame |-> <<[data |-> pkt, to |-> address, ack |-> ack]>>]

(***************************************************************************)
(* setup(): start-up and the handshake loop                                *)
(***************************************************************************)
\* The line setup() logs for the result of the radio initialisation.
RadioInitLine(radioInitOK, radioFreqSetError) ==
    IF ~radioInitOK THEN S_RadioInitError
    ELSE IF radioFreqSetError THEN S_ErrorSettingFreq
    ELSE S_RadioInitialized

\* setup() up to the handshake loop: the radio is initialised, the result and
\* "Waiting radio connect" are logged, radioPacket is loaded with "connect".
Setup(radioInitOK, radioFreqSetError) ==
    /\ pc = "setup"
    /\ LET l1 == RadioInitLine(radioInitOK, radioFreqSetError)
           r1 == printOledMessage(TheLog, l1)
           r2 == printOledMessage(r1, S_WaitingRadioConnect)
       IN  /\ lineNumber' = r2.lineNumber
           /\ lineMessage' = r2.lineMessage
           /\ appended' = Remember(appended, <<l1, S_WaitingRadioConnect>>)
    /\ radioPacket' = strncpy(S_connect, RADIO_PACKET_SIZE)
    /\ connected' = FALSE
    /\ now' = now + SETUP_DELAY
    /\ pc' = "handshake"
    /\ step' = "setup"
    /\ sent' = <<>>
    /\ rxFrame' = NoFrame
    /\ decoded' = NoFrame
    /\ ev' = NoEvents
    /\ polled' = NoPolls
    /\ UNCHANGED <<buffer, radioError, AT_Recieved, buttonStates, lastButtonStates,
                   lastDebounceTime, currentState, currentBatteryStatus, oledData,
                   attempts, ticks, polls, answers, obs>>

\* Mutation: the origin is compared with the console's own address.
HandshakeAccepts_OwnAddress(from, buf) ==
    /\ from = GROUND_STATION_ADDR
    /\ strncmpEq(buf, S_connect, CONNECT_CMP_LEN)

\* if (from == UPGOV_ADDR) ... if (!strncmp(buffer, "connect", 7))
HandshakeAccepts(from, buf) ==
    /\ from = UPGOV_ADDR
    /\ strncmpEq(buf, S_connect, CONNECT_CMP_LEN)

\* Mutation: the handshake loop is left after any attempt.
HandshakeDone_Always(c) == TRUE

\* while (!connected): the loop is left once connected is true.
HandshakeDone(c) == c

OTHER_ADDR == UPGOV_ADDR + 1

\* Replies the link may deliver during the handshake wait.
ReplyData ==
    {strncpy(S_connect, RADIO_PACKET_SIZE), <<"c">>,
     S_connect \o <<"X", NUL>>, P_ST \o S_READY \o <<NUL>>}
Replies == {<<f>> : f \in [from : {UPGOV_ADDR, OTHER_ADDR}, data : ReplyData]}

\* One pass of the handshake loop: "connect" is sent; when it is acknowledged
\* the reply is waited for (reply = NoFrame: the wait timed out).
HandshakePass(ack, reply) ==
    /\ pc = "handshake"
    /\ ~ack => reply = NoFrame
    /\ LET got == ack /\ reply # NoFrame
           buf == IF got THEN recvInto(buffer, reply[1].data) ELSE buffer
           ok == got /\ HandshakeAccepts(reply[1].from, buf)
           r == IF ok THEN printOledMessage(TheLog, S_Connected) ELSE TheLog
           c == connected \/ ok
       IN  /\ buffer' = buf
           /\ connected' = c
           /\ lineNumber' = r.lineNumber
           /\ lineMessage' = r.lineMessage
           /\ appended' = Remember(appended, IF ok THEN <<S_Connected>> ELSE <<>>)
           /\ rxFrame' = IF got THEN reply ELSE NoFrame
           /\ now' = now + (IF ack /\ reply = NoFrame THEN REPLY_TIMEOUT ELSE 0)
                         + ATTEMPT_DELAY
           /\ pc' = IF HandshakeDone(c) THEN "loop" ELSE "handshake"
    /\ sent' = <<[data |-> radioPacket, to |-> UPGOV_ADDR, ack |-> ack]>>
    /\ attempts' = attempts + 1
    /\ step' = "attempt"
    /\ decoded' = NoFrame
    /\ ev' = NoEvents
    /\ polled' = NoPolls
    /\ UNCHANGED <<radioPacket, radioError, AT_Recieved, buttonStates,
                   lastButtonStates, lastDebounceTime, currentState,
                   currentBatteryStatus, oledData, ticks, polls, answers, obs>>

\* The passes of the handshake loop looked at: the first MaxAttempts.
HandshakeAttempt(ack, reply) ==
    /\ attempts < MaxAttempts
    /\ HandshakePass(ack, reply)

\* A pass in which the peer acknowledges "connect" and answers "connect" in
\* time; it may follow any of the passes looked at.
PeerAnswers ==
    /\ attempts <= MaxAttempts
    /\ HandshakePass(TRUE, <<[from |-> UPGOV_ADDR,
                               data |-> strncpy(S_connect, RADIO_PACKET_SIZE)]>>)

(***************************************************************************)
(* loop(): one dispatch tick                                               *)
(***************************************************************************)
\* The entities loop() updates from a message, and the lines it logs.
TheApp ==
    [currentState |-> currentState,
     currentBatteryStatus |-> currentBatteryStatus,
     AT_Recieved |-> AT_Recieved,
     log |-> TheLog,
     oledData |-> oledData,
     lines |-> <<>>]

LogLine(app, line) ==
    [app EXCEPT !.log = printOledMessage(app.log, line),
                !.lines = Append(app.lines, line)]

\* printOledData(type, data): the text handed to the field of display B.
printOledData(app, type, data) == [app EXCEPT !.oledData[type] = data]

\* Mutation: an unrecognised ST: payload is taken as FAULT.
StateOf_UnknownIsFault(payload) ==
    IF payload = S_READY THEN "READY"
    ELSE IF payload = S_ARMED THEN "ARMED"
    ELSE IF payload = S_LOGGING THEN "LOGGING"
    ELSE IF payload = S_POST_FLIGHT THEN "POST_FLIGHT"
    ELSE "FAULT"

\* Mutation: START_UP is taken as a state name.
StateOf_AcceptsStartUp(payload) ==
    IF payload = S_FAULT THEN "FAULT"
    ELSE IF payload = S_READY THEN "READY"
    ELSE IF payload = S_ARMED THEN "ARMED"
    ELSE IF payload = S_LOGGING THEN "LOGGING"
    ELSE IF payload = S_POST_FLIGHT THEN "POST_FLIGHT"
    ELSE IF payload = <<"S", "T", "A", "R", "T", "_", "U", "P">> THEN "START_UP"
    ELSE "ERROR"

\* The if-chain on the ST: payload.
StateOf(payload) ==
    IF payload = S_FAULT THEN "FAULT"
    ELSE IF payload = S_READY THEN "READY"
    ELSE IF payload = S_ARMED THEN "ARMED"
    ELSE IF payload = S_LOGGING THEN "LOGGING"
    ELSE IF payload = S_POST_FLIGHT THEN "POST_FLIGHT"
    ELSE "ERROR"

\* Mutation: the POOR branch reports LOWBAT.
BatteryOf_PoorIsLow(payload) ==
    IF payload = S_FULL THEN "FULL"
    ELSE IF payload = S_OK THEN "OK"
    ELSE IF payload = S_LOW THEN "LOWBAT"
    ELSE IF payload = S_POOR THEN "LOWBAT"
    ELSE "CRITICAL"

\* The if-chain on the B1: and B2: payloads.
BatteryOf(payload) ==
    IF payload = S_FULL THEN "FULL"
    ELSE IF payload = S_OK THEN "OK"
    ELSE IF payload = S_LOW THEN "LOWBAT"
    ELSE IF payload = S_POOR THEN "CRITICAL"
    ELSE "CRITICAL"

\* String message(messageBuffer): messageBuffer is an uninitialised local
\* array; the received bytes are copied to its start and the String is built
\* from the bytes up to the first NUL, so when the frame carries no NUL the
\* String runs on into whatever bytes `garbage` the stack holds behind it.
DecodeString(data, garbage) == CStr(data \o garbage \o <<NUL>>)

\* message.remove(0, 3)
Payload(message) == removePrefix(message, PREFIX_LEN)

\* Mutation: frames of two bytes pass the length check.
LengthOK_Two(n) == n >= PREFIX_LEN - 1

\* if (messageLength >= 3)
LengthOK(n) == n >= PREFIX_LEN

\* Mutation: an AT: message is ignored while the prompt is already open.
ProcessMessage_ATOnce(app, message) ==
    IF startsWith(message, P_MS) THEN LogLine(app, Payload(message))
    ELSE IF startsWith(message, P_ER) THEN LogLine(app, S_ERROR_ \o Payload(message))
    ELSE IF startsWith(message, P_ST) THEN
        [printOledData(app, "STATUS", Payload(message))
            EXCEPT !.currentState = StateOf(Payload(message))]
    ELSE IF startsWith(message, P_AL) THEN printOledData(app, "ALTITUDE", Payload(message))
    ELSE IF startsWith(message, P_AC) THEN printOledData(app, "ACCELERATION", Payload(message))
    ELSE IF startsWith(message, P_DU) THEN printOledData(app, "DURATION", Payload(message))
    ELSE IF startsWith(message, P_AT) THEN
        IF app.AT_Recieved THEN app
        ELSE [LogLine(app, S_LauchAgain) EXCEPT !.AT_Recieved = TRUE]
    ELSE IF startsWith(message, P_B1) THEN
        [printOledData(app, "BATTERY1", Payload(message))
            EXCEPT !.currentBatteryStatus = BatteryOf(Payload(message))]
    ELSE IF startsWith(message, P_B2) THEN
        [printOledData(app, "BATTERY2", Payload(message))
            EXCEPT !.currentBatteryStatus = BatteryOf(Payload(message))]
    ELSE LogLine(app, S_InvalidMessage)

\* The tag dispatch of loop() on the String message.
ProcessMessage(app, message) ==
    IF startsWith(message, P_MS) THEN LogLine(app, Payload(message))
    ELSE IF startsWith(message, P_ER) THEN LogLine(app, S_ERROR_ \o Payload(message))
    ELSE IF startsWith(message, P_ST) THEN
        [printOledData(app, "STATUS", Payload(message))
            EXCEPT !.currentState = StateOf(Payload(message))]
    ELSE IF startsWith(message, P_AL) THEN printOledData(app, "ALTITUDE", Payload(message))
    ELSE IF startsWith(message, P_AC) THEN printOledData(app, "ACCELERATION", Payload(message))
    ELSE IF startsWith(message, P_DU) THEN printOledData(app, "DURATION", Payload(message))
    ELSE IF startsWith(message, P_AT) THEN
        [LogLine(app, S_LauchAgain) EXCEPT !.AT_Recieved = TRUE]
    ELSE IF startsWith(message, P_B1) THEN
        [printOledData(app, "BATTERY1", Payload(message))
            EXCEPT !.currentBatteryStatus = BatteryOf(Payload(message))]
    ELSE IF startsWith(message, P_B2) THEN
        [printOledData(app, "BATTERY2", Payload(message))
            EXCEPT !.currentBatteryStatus = BatteryOf(Payload(message))]
    ELSE LogLine(app, S_InvalidMessage)

\* Mutation: frames whose origin is not the peer are dropped.
Receive_PeerOnly(app, frame, garbage) ==
    IF frame = NoFrame THEN app
    ELSE IF frame[1].from # UPGOV_ADDR THEN app
    ELSE IF LengthOK(Len(frame[1].data))
         THEN ProcessMessage(app, DecodeString(frame[1].data, garbage))
         ELSE app

\* Mutation: every frame received closes the prompt before it is processed.
Receive_ResetsPrompt(app, frame, garbage) ==
    IF frame = NoFrame THEN app
    ELSE IF LengthOK(Len(frame[1].data))
         THEN ProcessMessage([app EXCEPT !.AT_Recieved = FALSE],
                             DecodeString(frame[1].data, garbage))
         ELSE [app EXCEPT !.AT_Recieved = FALSE]

\* Mutation: a frame that fails the length check sets GroundState to ERROR.
Receive_ShortFrameIsError(app, frame, garbage) ==
    IF frame = NoFrame THEN app
    ELSE IF LengthOK(Len(frame[1].data))
         THEN ProcessMessage(app, DecodeString(frame[1].data, garbage))
         ELSE [app EXCEPT !.currentState = "ERROR"]

\* Mutation: currentState is not static, every call of loop() starts from
\* START_UP.
Receive_StateNotStatic(app, frame, garbage) ==
    LET a == [app EXCEPT !.currentState = "START_UP"]
    IN  IF frame = NoFrame THEN a
        ELSE IF LengthOK(Len(frame[1].data))
             THEN ProcessMessage(a, DecodeString(frame[1].data, garbage))
             ELSE a

\* The receive part of loop(): frame = NoFrame when recvfromAck returns false.
Receive(app, frame, garbage) ==
    IF frame = NoFrame THEN app
    ELSE IF LengthOK(Len(frame[1].data))
         THEN ProcessMessage(app, DecodeString(frame[1].data, garbage))
         ELSE app

\* Whether the receive part of loop() takes the AT: branch on this frame.
ATEvent(frame, garbage) ==
    /\ frame # NoFrame
    /\ LengthOK(Len(frame[1].data))
    /\ \A p \in {P_MS, P_ER, P_ST, P_AL, P_AC, P_DU} :
          ~startsWith(DecodeString(frame[1].data, garbage), p)
    /\ startsWith(DecodeString(frame[1].data, garbage), P_AT)

\* Mutation: the ARMED branch is missing.
ButtonACommand_ArmOnly(state) ==
    IF state = "READY" THEN S_arm ELSE NoCommand

\* Mutation: only the ARMED state is tested, every other state sends "arm".
ButtonACommand_ArmUnlessArmed(state) ==
    IF state = "ARMED" THEN S_disarm ELSE S_arm

\* Mutation: the two commands of button A are swapped.
ButtonACommand_Swapped(state) ==
    IF state = "READY" THEN S_disarm
    ELSE IF state = "ARMED" THEN S_arm
    ELSE NoCommand

\* The command a button A release sends in the given state (NoCommand: none).
ButtonACommand(state) ==
    IF state = "READY" THEN S_arm
    ELSE IF state = "ARMED" THEN S_disarm
    ELSE NoCommand

\* Mutation: a release of button B clears what button C's filter holds.
getYesOrNo_ResetsC(bt, readingB, readingC, t) ==
    LET b == buttonReleased(bt, BUTTON_B, readingB, t)
        c == buttonReleased(b, BUTTON_C, readingC, t)
    IN  IF b.ret
        THEN [answer |-> "YES",
              after |-> [b EXCEPT !.buttonStates[BUTTON_C] = NOT_PRESSED],
              evB |-> TRUE, evC |-> FALSE, polledC |-> FALSE]
        ELSE [answer |-> IF c.ret THEN "NO" ELSE "MAYBE", after |-> c,
              evB |-> FALSE, evC |-> c.ret, polledC |-> TRUE]

\* Mutation: both buttons are polled before the answer is chosen.
getYesOrNo_PollsBoth(bt, readingB, readingC, t) ==
    LET b == buttonReleased(bt, BUTTON_B, readingB, t)
        c == buttonReleased(b, BUTTON_C, readingC, t)
    IN  [answer |-> IF b.ret THEN "YES" ELSE IF c.ret THEN "NO" ELSE "MAYBE",
         after |-> c, evB |-> b.ret, evC |-> c.ret, polledC |-> TRUE]

\* getYesOrNo() at time t: button B is polled, button C only when B reports
\* no release.
getYesOrNo(bt, readingB, readingC, t) ==
    LET b == buttonReleased(bt, BUTTON_B, readingB, t)
        c == buttonReleased(b, BUTTON_C, readingC, t)
    IN  IF b.ret
        THEN [answer |-> "YES", after |-> b, evB |-> TRUE, evC |-> FALSE, polledC |-> FALSE]
        ELSE [answer |-> IF c.ret THEN "NO" ELSE "MAYBE", after |-> c,
              evB |-> FALSE, evC |-> c.ret, polledC |-> TRUE]

\* The command sent for an answer (NoCommand: none).
AnswerCommand(answer) ==
    IF answer = "YES" THEN S_again
    ELSE IF answer = "NO" THEN S_no
    ELSE NoCommand

\* Mutation: getYesOrNo() is called in every tick.
PromptOpen_Always(at) == TRUE

\* if (AT_Recieved == true): whether the prompt is polled in this tick.
PromptOpen(at) == at = TRUE

NoSend(radio) ==
    [ret |-> FALSE, radioPacket |-> radio.radioPacket,
     radioError |-> radio.radioError, frame |-> NoFrame]

\* Inputs of a tick.
FrameData ==
    {<<"S", "T">>,
     P_ST \o S_READY \o <<NUL>>,
     P_ST \o S_ARMED \o <<NUL>>,
     P_ST \o <<"?", NUL>>,
     P_AT \o <<NUL>>,
     P_MS \o <<"h", "i", NUL>>,
     P_MS \o <<"h", "i">>,
     P_B1 \o S_FULL \o <<NUL>>,
     P_B2 \o S_LOW \o <<NUL>>,
     <<"X", "X", ":", NUL>>}
Frames == {<<f>> : f \in [from : {UPGOV_ADDR, OTHER_ADDR}, data : FrameData]}
Garbage == {<<>>, <<"x">>}
GarbageFor(frame) ==
    IF frame = NoFrame THEN {<<>>}
    ELSE IF \E i \in 1..Len(frame[1].data) : frame[1].data[i] = NUL THEN {<<>>}
    ELSE Garbage
SlowWork == DEBOUNCE_DELAY
WorkTimes == {0, SlowWork}
SendTimes == {0, 60}

\* Mutation: the button A branch reads GroundState as it was when loop() was
\* entered.
ButtonAState_BeforeReceive(before, after) == before

\* if (currentState == READY) in the button A branch: currentState is read
\* after the receive part of the same call of loop() has run.
ButtonAState(before, after) == after

\* One call of loop().  dt is the time the receive part takes, st the time a
\* sendtoWait call takes, ackA and ackP what sendtoWait reports for the
\* button A command and for the prompt answer.  The stages are bound one
\* after the other in the order loop() runs them.
Tick(frame, garbage, reading, dt, st, ackA, ackP) ==
    /\ pc = "loop"
    /\ \E app \in {Receive(TheApp, frame, garbage)} :
       \E tA \in {now + dt} :
       \E bA \in {buttonReleased(TheButtons, BUTTON_A, reading[BUTTON_A], tA)} :
       \E cmdA \in {IF bA.ret
                    THEN ButtonACommand(ButtonAState(currentState, app.currentState))
                    ELSE NoCommand} :
          /\ cmdA = NoCommand => ackA
          /\ \E rA \in {IF cmdA # NoCommand
                        THEN sendRadioMessage(TheRadio, cmdA, UPGOV_ADDR, ackA)
                        ELSE NoSend(TheRadio)} :
             \E tP \in {IF cmdA # NoCommand THEN tA + st ELSE tA} :
             \E ask \in {PromptOpen(app.AT_Recieved)} :
             \E yn \in {getYesOrNo(bA, reading[BUTTON_B], reading[BUTTON_C], tP)} :
             \E cmdP \in {IF ask THEN AnswerCommand(yn.answer) ELSE NoCommand} :
                /\ cmdP = NoCommand => ackP
                /\ (cmdA = NoCommand /\ cmdP = NoCommand) => st = Min(SendTimes)
                /\ \E rP \in {IF cmdP # NoCommand
                              THEN sendRadioMessage(rA, cmdP, UPGOV_ADDR, ackP)
                              ELSE NoSend(rA)} :
                   \E bt \in {IF ask THEN yn.after ELSE bA} :
                      /\ rP.radioError <= MaxRadioError
                      /\ currentState' = app.currentState
                      /\ currentBatteryStatus' = app.currentBatteryStatus
                      /\ AT_Recieved' = app.AT_Recieved
                      /\ lineNumber' = app.log.lineNumber
                      /\ lineMessage' = app.log.lineMessage
                      /\ oledData' = app.oledData
                      /\ appended' = Remember(appended, app.lines)
                      /\ buttonStates' = bt.buttonStates
                      /\ lastButtonStates' = bt.lastButtonStates
                      /\ lastDebounceTime' = bt.lastDebounceTime
                      /\ radioPacket' = rP.radioPacket
                      /\ radioError' = rP.radioError
                      /\ sent' = rA.frame \o rP.frame
                      /\ answers' = (IF ATEvent(frame, garbage) THEN 0 ELSE answers)
                                     + (IF cmdP # NoCommand THEN 1 ELSE 0)
                      /\ ev' = [b \in Buttons |->
                                   IF b = BUTTON_A THEN bA.ret
                                   ELSE IF b = BUTTON_B THEN ask /\ yn.evB
                                   ELSE ask /\ yn.evC]
                      /\ polled' = [b \in Buttons |->
                                   IF b = BUTTON_A THEN 1
                                   ELSE IF b = BUTTON_B THEN (IF ask THEN 1 ELSE 0)
                                   ELSE (IF ask /\ yn.polledC THEN 1 ELSE 0)]
                      /\ now' = (IF cmdP # NoCommand THEN tP + st ELSE tP) + LOOP_DELAY
    /\ decoded' = IF frame # NoFrame /\ LengthOK(Len(frame[1].data))
                  THEN <<DecodeString(frame[1].data, garbage)>> ELSE NoFrame
    /\ rxFrame' = frame
    /\ ticks' = ticks + 1
    /\ step' = "tick"
    /\ UNCHANGED <<pc, connected, buffer, attempts, polls, obs>>

(***************************************************************************)
(* Environments.  loop() is the same in each; what differs is what the     *)
(* link delivers and which buttons the operator touches.                   *)
(***************************************************************************)
Idle == [b \in Buttons |-> NOT_PRESSED]
\* Readings in which only the buttons of B may be pressed.
Readings(B) == {r \in [Buttons -> Levels] : \A b \in Buttons \ B : r[b] = NOT_PRESSED}

Peer(data) == {<<[from |-> UPGOV_ADDR, data |-> d]>> : d \in data}

\* The handshake answered at once by the peer.
GoodReply == Peer({strncpy(S_connect, RADIO_PACKET_SIZE)})

\* The sketch in an environment: the radio initialisation results, what
\* sendtoWait and the reply wait of the handshake may give, the frames and
\* button levels a tick may see, the times a tick's work and a send may take,
\* what sendtoWait may report for a command, and the number of ticks looked at.
Ticks(frames, readings, workTimes, sendTimes, acks, maxTicks) ==
    /\ ticks < maxTicks
    /\ \E frame \in frames, reading \in readings, dt \in workTimes :
       \E garbage \in GarbageFor(frame), st \in sendTimes, ackA \in acks, ackP \in acks :
          Tick(frame, garbage, reading, dt, st, ackA, ackP)

System(inits, hsAcks, replies, frames, readings, workTimes, sendTimes, acks, maxTicks) ==
    \/ \E i \in inits : Setup(i[1], i[2])
    \/ \E ack \in hsAcks, reply \in replies : HandshakeAttempt(ack, reply)
    \/ Ticks(frames, readings, workTimes, sendTimes, acks, maxTicks)

RadioOK == {<<TRUE, FALSE>>}
AnyInit == {<<TRUE, FALSE>>, <<TRUE, TRUE>>, <<FALSE, FALSE>>}

\* Operator at button A while the peer reports its state.
ArmFrames ==
    {NoFrame} \cup Peer({<<"S", "T">>, P_ST \o S_READY \o <<NUL>>,
                         P_ST \o S_ARMED \o <<NUL>>, P_AT \o <<NUL>>})

Next ==
    System(RadioOK, {TRUE}, GoodReply \cup {NoFrame}, ArmFrames, Readings({BUTTON_A}),
           WorkTimes, SendTimes, BOOLEAN, MaxTicks)

Spec == Init /\ [][Next]_vars

\* Any start-up and handshake traffic; then ticks without buttons.
NextHandshake ==
    System(AnyInit, BOOLEAN, Replies \cup {NoFrame},
           {NoFrame} \cup Peer({P_ST \o S_READY \o <<NUL>>}), {Idle},
           {Min(WorkTimes)}, {Min(SendTimes)}, {TRUE}, MaxHandshakeTicks)

SpecHandshake == Init /\ [][NextHandshake]_vars

\* Any frame from any origin, no button touched.
NextFrames ==
    System(RadioOK, {TRUE}, GoodReply, Frames \cup {NoFrame}, {Idle},
           {Min(WorkTimes)}, {Min(SendTimes)}, {TRUE}, MaxFrameTicks)

SpecFrames == Init /\ [][NextFrames]_vars

\* Operator at buttons B and C while the peer asks its question.
NextPrompt ==
    System(RadioOK, {TRUE}, GoodReply, {NoFrame} \cup Peer({P_AT \o <<NUL>>}),
           Readings({BUTTON_B, BUTTON_C}), {SlowWork}, {Min(SendTimes)}, BOOLEAN,
           MaxPromptTicks)

SpecPrompt == Init /\ [][NextPrompt]_vars

\* The peer reports status and battery levels, with payloads of the tag
\* table and others; no button touched.
S_START_UP == <<"S", "T", "A", "R", "T", "_", "U", "P">>
S_CRITICAL == <<"C", "R", "I", "T", "I", "C", "A", "L">>
StatusPayloads ==
    {S_FAULT, S_READY, S_ARMED, S_LOGGING, S_POST_FLIGHT, S_START_UP, <<>>, <<"?">>}
BatteryPayloads == {S_FULL, S_OK, S_LOW, S_POOR, S_CRITICAL, <<>>}
StatusFrames == Peer({P_ST \o p \o <<NUL>> : p \in StatusPayloads})
BatteryFrames ==
    Peer({t \o p \o <<NUL>> : t \in {P_B1, P_B2}, p \in BatteryPayloads}
         \cup {P_B1 \o S_FULL})

NextDecode ==
    System(RadioOK, {TRUE}, GoodReply, {NoFrame} \cup StatusFrames \cup BatteryFrames,
           {Idle}, {Min(WorkTimes)}, {Min(SendTimes)}, {TRUE}, MaxDecodeTicks)

SpecDecode == Init /\ [][NextDecode]_vars

\* Operator at button A while the peer reports the states in which button A
\* has no command.
IdleStateFrames ==
    {NoFrame} \cup Peer({P_ST \o p \o <<NUL>> :
                            p \in {S_FAULT, S_LOGGING, S_POST_FLIGHT, <<"?">>, S_READY}})

NextButtonA ==
    System(RadioOK, {TRUE}, GoodReply, IdleStateFrames, Readings({BUTTON_A}),
           {SlowWork}, {Min(SendTimes)}, BOOLEAN, MaxButtonATicks)

SpecButtonA == Init /\ [][NextButtonA]_vars

\* The handshake with a peer that may fail to acknowledge, stay silent or
\* answer something else on the passes looked at, and that answers in the end:
\* setup() runs on, the peer's answer is not put off for ever, and loop() is
\* called once setup() has returned.
StartUp == \E i \in AnyInit : Setup(i[1], i[2])
Retries == \E ack \in BOOLEAN, reply \in Replies \cup {NoFrame} : HandshakeAttempt(ack, reply)
FirstTicks ==
    Ticks({NoFrame} \cup Peer({P_ST \o S_READY \o <<NUL>>}), {Idle},
          {Min(WorkTimes)}, {Min(SendTimes)}, {TRUE}, MaxHandshakeTicks)

NextLive == StartUp \/ Retries \/ PeerAnswers \/ FirstTicks

SpecLive ==
    /\ Init
    /\ [][NextLive]_vars
    /\ WF_vars(StartUp)
    /\ WF_vars(PeerAnswers)
    /\ WF_vars(FirstTicks)

\* Any handshake traffic, then the peer reporting status, asking its
\* question or silent; no button touched.
NextStartUp ==
    System(RadioOK, BOOLEAN, Replies \cup {NoFrame},
           {NoFrame} \cup StatusFrames \cup Peer({P_AT \o <<NUL>>}), {Idle},
           {Min(WorkTimes)}, {Min(SendTimes)}, {TRUE}, MaxStartUpTicks)

SpecStartUp == Init /\ [][NextStartUp]_vars

\* Operator at all three buttons (A and B together, C alone, B and C
\* together) while the peer reports READY or ARMED and asks its question.
Pressing(B) == [b \in Buttons |-> IF b \in B THEN PRESSED ELSE NOT_PRESSED]
ConsoleReadings ==
    {Idle, Pressing({BUTTON_A, BUTTON_B}), Pressing({BUTTON_C}),
     Pressing({BUTTON_B, BUTTON_C})}
ConsoleFrames ==
    {NoFrame} \cup Peer({P_ST \o S_READY \o <<NUL>>, P_ST \o S_ARMED \o <<NUL>>,
                         P_AT \o <<NUL>>})

NextConsole ==
    System(RadioOK, {TRUE}, GoodReply, ConsoleFrames, ConsoleReadings,
           {SlowWork}, {Min(SendTimes)}, BOOLEAN, MaxConsoleTicks)

SpecConsole == Init /\ [][NextConsole]_vars

\* Operator at buttons B and C while the peer asks its question, for one
\* tick more than the console, so that an answer held back can come out.
AnswerFrames == {NoFrame} \cup Peer({P_AT \o <<NUL>>})
AnswerReadings == Readings({BUTTON_B, BUTTON_C})

NextAnswer ==
    System(RadioOK, {TRUE}, GoodReply, AnswerFrames, AnswerReadings,
           {SlowWork}, {Min(SendTimes)}, BOOLEAN, MaxAnswerTicks)

SpecAnswer == Init /\ [][NextAnswer]_vars

(***************************************************************************)
(* Properties                                                              *)
(***************************************************************************)
Commands == {S_arm, S_disarm, S_again, S_no}

\* The number of frames of a step that carry the command cmd to address to.
Sends(frames, cmd, to) ==
    Cardinality({i \in 1..Len(frames) : CStr(frames[i].data) = cmd /\ frames[i].to = to})

AnyRelease(e) == \E b \in Buttons : e[b]

\* C1: no dispatch tick runs before the handshake has succeeded: while
\* connected is false no loop() call has been made, no frame has been decoded,
\* no button release has been reported and no arm, disarm, again or no frame
\* has been sent.
C1_NoDispatchBeforeConnected ==
    ~connected =>
        /\ ticks = 0
        /\ step # "tick"
        /\ decoded = NoFrame
        /\ ~AnyRelease(ev)
        /\ \A i \in 1..Len(sent) : CStr(sent[i].data) \notin Commands

C1_Witness ==
    /\ connected
    /\ step = "tick"
    /\ decoded # NoFrame
    /\ ev[BUTTON_A]
    /\ Sends(sent, S_arm, UPGOV_ADDR) = 1

\* C2: the handshake completes in an attempt only if that attempt received a
\* reply whose origin is the peer address and whose payload is "connect".
C2_CompletesOnlyOnConnectFromPeer ==
    (step = "attempt" /\ connected) =>
        /\ rxFrame # NoFrame
        /\ rxFrame[1].from = UPGOV_ADDR
        /\ CStr(rxFrame[1].data) = S_connect

\* A String message was built from an ST: frame in the step.
STDecoded(d) == d # NoFrame /\ startsWith(d[1], P_ST)

\* C3: in a tick where button A reports a release while GroundState is READY
\* exactly one frame is sent for button A, it is "arm" to the peer, whether
\* or not it is acknowledged; and GroundState leaves READY only in a step that
\* decodes an ST: frame.
C3_ArmOnReleaseInReady ==
    [][ /\ (step' = "tick" /\ ev'[BUTTON_A] /\ currentState' = "READY") =>
              /\ Sends(sent', S_arm, UPGOV_ADDR) = 1
              /\ Sends(sent', S_disarm, UPGOV_ADDR) = 0
              /\ CStr(sent'[1].data) = S_arm
        /\ (currentState = "READY" /\ currentState' # "READY") =>
              (step' = "tick" /\ STDecoded(decoded'))
      ]_vars

C3_Witness ==
    /\ step = "tick"
    /\ ev[BUTTON_A]
    /\ currentState = "READY"
    /\ decoded = NoFrame
    /\ Len(sent) = 1
    /\ CStr(sent[1].data) = S_arm
    /\ ~sent[1].ack

\* C4: a button B release while the prompt is pending sends "again" exactly
\* once and clears PendingPrompt, and no AT: event is answered twice.
C4_AgainOnceAndCleared ==
    /\ (step = "tick" /\ ev[BUTTON_B]) =>
          /\ Sends(sent, S_again, UPGOV_ADDR) = 1
          /\ AT_Recieved = FALSE
    /\ answers <= 1

\* C5: a tick that receives a frame shorter than 3 bytes builds no String
\* from it, changes neither GroundState nor BatteryState nor PendingPrompt nor
\* the log nor display B, and sends only what a button release sends.
C5_ShortFrameChangesNothing ==
    [][ (step' = "tick" /\ rxFrame' # NoFrame /\ Len(rxFrame'[1].data) < 3) =>
            /\ decoded' = NoFrame
            /\ currentState' = currentState
            /\ currentBatteryStatus' = currentBatteryStatus
            /\ AT_Recieved' = AT_Recieved
            /\ lineNumber' = lineNumber
            /\ lineMessage' = lineMessage
            /\ oledData' = oledData
            /\ (sent' # <<>> => AnyRelease(ev'))
            /\ Len(sent') <= 1
      ]_vars

C5_Witness ==
    /\ step = "tick"
    /\ rxFrame # NoFrame
    /\ Len(rxFrame[1].data) < 3
    /\ currentState = "READY"
    /\ Sends(sent, S_arm, UPGOV_ADDR) = 1

\* The samples of a button end with the runs pressed, released, pressed,
\* released, the last one still going on.
Bounced(o) == o.level = NOT_PRESSED /\ Len(o.runs) >= 3

\* C6: when the samples of a button go pressed, released, pressed, released
\* with all of it inside less than the stability window, and the level then
\* stays released, buttonReleased returns true on exactly one poll, which
\* comes once the window has elapsed since the last level change.
C6_BounceYieldsOneRelease ==
    \A b \in Buttons :
        LET o == obs[b]
        IN  (Bounced(o) /\ o.since - o.runs[3].since < DEBOUNCE_DELAY) =>
                /\ o.events <= 1
                /\ (o.lastPoll - o.since > DEBOUNCE_DELAY) => o.events = 1
                /\ o.events = 1 => o.eventAt - o.since >= DEBOUNCE_DELAY

\* C6 as amended: the same when the pressed level had been committed as the
\* stable level before the bounce, the level changes released, pressed,
\* released all inside less than the window: exactly one poll returns true,
\* the first one taken more than the window after the last level change.
C6_BounceAfterCommittedPress ==
    \A b \in Buttons :
        LET o == obs[b]
        IN  (/\ Bounced(o)
             /\ o.runs[2].stable0 = PRESSED
             /\ o.since - o.runs[2].since < DEBOUNCE_DELAY) =>
                /\ o.events <= 1
                /\ (o.lastPoll - o.since > DEBOUNCE_DELAY) <=> o.events = 1
                /\ o.events = 1 => o.eventAt - o.since >= DEBOUNCE_DELAY

C6_Witness ==
    \E b \in Buttons :
        LET o == obs[b]
        IN  /\ Bounced(o)
            /\ o.runs[2].stable0 = PRESSED
            /\ o.since - o.runs[2].since < DEBOUNCE_DELAY
            /\ o.events = 1
            /\ o.lastPoll > o.eventAt

\* C7: every release (the samples go from pressed to released and stay
\* released) produces exactly one release event, none twice and none missed.
C7_OneEventPerRelease ==
    \A b \in Buttons :
        LET o == obs[b]
        IN  /\ o.events <= 1
            /\ (o.level = NOT_PRESSED /\ Len(o.runs) >= 1
                /\ o.lastPoll - o.since > DEBOUNCE_DELAY) => o.events = 1

\* C7 as amended: every release of a press that had been committed as the
\* stable level produces exactly one release event, at the first poll taken
\* more than the window after the samples turned released, whatever bounces
\* came before; no run of samples produces two events, and a run of pressed
\* samples or a release of a press never committed produces none.
C7_OneEventPerCommittedPress ==
    \A b \in Buttons :
        LET o == obs[b]
        IN  /\ o.events <= 1
            /\ (o.level = NOT_PRESSED /\ o.stable0 = PRESSED) =>
                  ((o.lastPoll - o.since > DEBOUNCE_DELAY) <=> o.events = 1)
            /\ (o.level = PRESSED \/ o.stable0 = NOT_PRESSED) => o.events = 0

C7_Witness ==
    \E b \in Buttons :
        LET o == obs[b]
        IN  /\ o.level = NOT_PRESSED
            /\ o.stable0 = PRESSED
            /\ Len(o.runs) = 2
            /\ o.events = 1
            /\ o.lastPoll > o.eventAt

\* C8: buttonReleased returns true only on a poll whose sample is released,
\* at least the window after the samples last changed, and with pressed as
\* the stable level before the poll; a poll that commits pressed returns false.
C8_NoEventWhileSettling ==
    \A b \in Buttons :
        ev[b] =>
            /\ obs[b].level = NOT_PRESSED
            /\ obs[b].lastPoll - obs[b].since >= DEBOUNCE_DELAY
            /\ obs[b].stableBefore = PRESSED
            /\ buttonStates[b] = NOT_PRESSED

C8_Witness ==
    /\ ev[BUTTON_C]
    /\ obs[BUTTON_C].stableBefore = PRESSED
    /\ obs[BUTTON_C].lastPoll - obs[BUTTON_C].since > DEBOUNCE_DELAY
    /\ buttonStates[BUTTON_C] = NOT_PRESSED

\* C9: after n calls of printOledMessage the log holds the last min(n, 6)
\* lines passed to it, in the order passed, in slots 0 .. min(n, 6) - 1 (the
\* newest in the lowest occupied slot), the slots below are empty, and the
\* line count is min(n, 6).
C9_LogHoldsLastSix ==
    LET n == Len(appended)
        k == IF n < LOG_LINES THEN n ELSE LOG_LINES
    IN  /\ lineNumber = k
        /\ lineNumber <= LOG_LINES
        /\ \A i \in 0..(LOG_LINES - 1) :
              lineMessage[i] = IF i < k THEN appended[n - k + 1 + i] ELSE <<>>

C9_Witness ==
    /\ Len(appended) = LOG_LINES + 1
    /\ \A i, j \in 1..Len(appended) : i # j => appended[i] # appended[j]
    /\ \A i \in 0..(LOG_LINES - 1) : lineMessage[i] = appended[i + 2]
    /\ \A i \in 0..(LOG_LINES - 1) : lineMessage[i] # appended[1]

\* The text a frame carries, and its payload: the characters from index 3 on.
FrameText(data) == CStr(data)
FramePayload(data) == removePrefix(FrameText(data), PREFIX_LEN)

\* C10: for a frame with a recognised tag the text used is the frame's
\* characters from index 3 onward: the line logged for MS:, the text shown in
\* the field of display B for ST:, AL:, AC:, DU:, B1: and B2:, and the text
\* the state names are compared against.
C10_PayloadPreserved ==
    (step = "tick" /\ rxFrame # NoFrame /\ Len(rxFrame[1].data) >= PREFIX_LEN) =>
        LET text == FrameText(rxFrame[1].data)
            pay == FramePayload(rxFrame[1].data)
        IN  /\ startsWith(text, P_MS) => (appended # <<>> /\ appended[Len(appended)] = pay)
            /\ startsWith(text, P_ST) =>
                  (oledData["STATUS"] = pay /\ currentState = StateOf(pay))
            /\ startsWith(text, P_AL) => oledData["ALTITUDE"] = pay
            /\ startsWith(text, P_AC) => oledData["ACCELERATION"] = pay
            /\ startsWith(text, P_DU) => oledData["DURATION"] = pay
            /\ startsWith(text, P_B1) => oledData["BATTERY1"] = pay
            /\ startsWith(text, P_B2) => oledData["BATTERY2"] = pay

\* The String message of the step begins with the given tag.
Decoded(d, tag) == d # NoFrame /\ startsWith(d[1], tag)

\* The BatteryState the spec's table gives for a payload.
BatteryTable(payload) ==
    CASE payload = S_FULL -> "FULL"
      [] payload = S_OK -> "OK"
      [] payload = S_LOW -> "LOWBAT"
      [] OTHER -> "CRITICAL"

\* C11: after a tick that processes a B1: or B2: frame the BatteryState is
\* FULL for the payload FULL, OK for OK, LOWBAT for LOW and CRITICAL for POOR
\* and for every other payload, whatever the BatteryState was before.
C11_BatteryMapping ==
    (step = "tick" /\ (Decoded(decoded, P_B1) \/ Decoded(decoded, P_B2))) =>
        currentBatteryStatus = BatteryTable(Payload(decoded[1]))

C11_Witness ==
    /\ step = "tick"
    /\ Decoded(decoded, P_B2)
    /\ Payload(decoded[1]) = S_POOR
    /\ currentBatteryStatus = "CRITICAL"
    /\ oledData["BATTERY1"] = S_FULL

\* C12: the two battery channels are independent: the BatteryState of
\* channel 1 is the one the latest B1: frame gave (display B keeps that
\* frame's payload in its BATTERY1 field), whatever B2: frames came after it.
\* The program holds the BatteryState of both channels in
\* currentBatteryStatus.
C12_ChannelsIndependent ==
    oledData["BATTERY1"] # <<>> =>
        currentBatteryStatus = BatteryTable(oledData["BATTERY1"])

\* The five state names an ST: payload may carry.
StateNames == {S_FAULT, S_READY, S_ARMED, S_LOGGING, S_POST_FLIGHT}

\* The GroundState the spec's table gives for an ST: payload.
StateTable(payload) ==
    CASE payload = S_FAULT -> "FAULT"
      [] payload = S_READY -> "READY"
      [] payload = S_ARMED -> "ARMED"
      [] payload = S_LOGGING -> "LOGGING"
      [] payload = S_POST_FLIGHT -> "POST_FLIGHT"
      [] OTHER -> "ERROR"

\* C14: after a tick that processes an ST: frame GroundState is the state the
\* payload names when the payload is one of FAULT, READY, ARMED, LOGGING,
\* POST_FLIGHT, and ERROR for every other payload, whatever GroundState was
\* before.
C14_StatusMapping ==
    (step = "tick" /\ Decoded(decoded, P_ST)) =>
        /\ currentState = StateTable(Payload(decoded[1]))
        /\ Payload(decoded[1]) \notin StateNames => currentState = "ERROR"

C14_Witness ==
    /\ step = "tick"
    /\ ticks = 3
    /\ Decoded(decoded, P_ST)
    /\ Payload(decoded[1]) = S_START_UP
    /\ currentState = "ERROR"

\* C15: once GroundState is ERROR it is ERROR after every later step.
C15_ErrorHasNoExit ==
    [][currentState = "ERROR" => currentState' = "ERROR"]_vars

\* C15 as amended: GroundState leaves ERROR only in a tick that processes an
\* ST: frame whose payload is one of the five state names, and then becomes
\* the state named; every other step leaves it ERROR.
C15_ErrorLeftOnlyByNamedStatus ==
    [][ (currentState = "ERROR" /\ currentState' # "ERROR") =>
            /\ step' = "tick"
            /\ Decoded(decoded', P_ST)
            /\ Payload(decoded'[1]) \in StateNames
            /\ currentState' = StateTable(Payload(decoded'[1]))
      ]_vars

C15_Witness ==
    /\ step = "tick"
    /\ currentState = "ERROR"
    /\ oledData["STATUS"] = <<"?">>
    /\ Decoded(decoded, P_B1)

\* The frame received in the step has 3 bytes or more and begins with "ST:".
STFrame(f) ==
    /\ f # NoFrame
    /\ Len(f[1].data) >= PREFIX_LEN
    /\ SubSeq(f[1].data, 1, PREFIX_LEN) = P_ST

\* C13: GroundState changes only in a tick that receives a frame of 3 bytes
\* or more beginning with "ST:": handshake steps, button releases, sends
\* (acknowledged or not), frames with another tag and frames that cannot be
\* decoded leave it as it was.
C13_StateChangedOnlyByST ==
    [][ currentState' # currentState => (step' = "tick" /\ STFrame(rxFrame')) ]_vars

C13_Witness ==
    /\ step = "tick"
    /\ currentState = "READY"
    /\ Decoded(decoded, P_AT)
    /\ ev[BUTTON_A]
    /\ Len(sent) = 1
    /\ ~sent[1].ack

\* C16: in a tick where button A reports a release while GroundState is ARMED
\* exactly one frame is sent, it is "disarm" to the peer; and GroundState
\* leaves ARMED only in a tick that processes an ST: frame.
C16_DisarmOnReleaseInArmed ==
    [][ /\ (step' = "tick" /\ ev'[BUTTON_A] /\ currentState' = "ARMED") =>
              /\ Len(sent') = 1
              /\ Sends(sent', S_disarm, UPGOV_ADDR) = 1
        /\ (currentState = "ARMED" /\ currentState' # "ARMED") =>
              (step' = "tick" /\ Decoded(decoded', P_ST))
      ]_vars

C16_Witness ==
    /\ step = "tick"
    /\ ev[BUTTON_A]
    /\ currentState = "ARMED"
    /\ decoded = NoFrame
    /\ Sends(sent, S_disarm, UPGOV_ADDR) = 1

\* C19: a pending prompt stays open: when PendingPrompt is set, a tick in
\* which neither button B nor button C reports a release leaves it set,
\* whatever frame the tick receives and whatever button A does.
C19_PromptStaysOpen ==
    [][ (AT_Recieved /\ step' = "tick" /\ ~ev'[BUTTON_B] /\ ~ev'[BUTTON_C]) =>
            AT_Recieved' ]_vars

C19_Witness ==
    /\ step = "tick"
    /\ AT_Recieved
    /\ Decoded(decoded, P_ST)
    /\ ev[BUTTON_A]
    /\ sent # <<>>

\* C17: in a tick where button A reports a release while GroundState is
\* neither READY nor ARMED nothing is transmitted.
C17_NoSendInOtherStates ==
    (step = "tick" /\ ev[BUTTON_A] /\ currentState \notin {"READY", "ARMED"}) =>
        sent = <<>>

C17_Witness ==
    /\ step = "tick"
    /\ ev[BUTTON_A]
    /\ currentState \in {"FAULT", "LOGGING", "POST_FLIGHT", "ERROR"}
    /\ Decoded(decoded, P_ST)
    /\ sent = <<>>

\* C18: a button C release (button B reporting none) while the prompt is
\* pending sends "no" exactly once to the peer and clears PendingPrompt.
C18_NoOnceAndCleared ==
    (step = "tick" /\ ev[BUTTON_C] /\ ~ev[BUTTON_B]) =>
        /\ Sends(sent, S_no, UPGOV_ADDR) = 1
        /\ AT_Recieved = FALSE

C25_CommitsAtWindow ==
    \A b \in Buttons :
        obs[b].lastPoll - obs[b].since >= DEBOUNCE_DELAY =>
            buttonStates[b] = obs[b].level

\* C25 as amended: the filter commits the raw level on the first poll at
\* which it has been unchanged for more than the stability window: a poll
\* taken DEBOUNCE_DELAY or less after the last level change leaves the stable
\* level as it was and emits nothing, a poll taken later finds the level
\* committed, and a release committed that way has emitted its one event.
C25_CommitsAfterWindow ==
    \A b \in Buttons :
        LET o == obs[b]
        IN  /\ o.lastPoll - o.since <= DEBOUNCE_DELAY =>
                  (buttonStates[b] = o.stable0 /\ o.events = 0)
            /\ o.lastPoll - o.since > DEBOUNCE_DELAY =>
                  /\ buttonStates[b] = o.level
                  /\ (o.level = NOT_PRESSED /\ o.stable0 = PRESSED) => o.events = 1

C25_Witness ==
    \E b \in Buttons :
        /\ obs[b].level = NOT_PRESSED
        /\ obs[b].stable0 = PRESSED
        /\ obs[b].lastPoll - obs[b].since = DEBOUNCE_DELAY
        /\ buttonStates[b] = PRESSED
        /\ ~ev[b]

\* C28: whether an attempt completes the handshake depends only on the bytes
\* of the reply received in that attempt: an attempt that completes it has
\* received a reply whose own first bytes are "connect".
C28_AcceptDependsOnReplyOnly ==
    (step = "attempt" /\ connected) =>
        /\ rxFrame # NoFrame
        /\ Len(rxFrame[1].data) >= CONNECT_CMP_LEN
        /\ SubSeq(rxFrame[1].data, 1, CONNECT_CMP_LEN) = S_connect

\* C29: GroundState is START_UP until a tick processes an ST: frame: the
\* steps of setup(), the handshake passes with the replies they consume, and
\* the ticks that process no ST: frame leave it START_UP; a tick decodes only
\* the frame it received itself; a tick that processes an ST: frame leaves
\* GroundState different from START_UP, and no step returns it to START_UP.
C29_StartUpUntilFirstStatus ==
    [][ /\ (currentState = "START_UP" /\ ~(step' = "tick" /\ Decoded(decoded', P_ST))) =>
              currentState' = "START_UP"
        /\ (step' = "tick" /\ Decoded(decoded', P_ST)) => currentState' # "START_UP"
        /\ currentState # "START_UP" => currentState' # "START_UP"
        /\ step' # "tick" => decoded' = NoFrame
        /\ (step' = "tick" /\ decoded' # NoFrame) =>
              (rxFrame' # NoFrame /\ startsWith(decoded'[1], CStr(rxFrame'[1].data)))
      ]_vars

C29_Witness ==
    /\ step = "attempt"
    /\ ~connected
    /\ rxFrame # NoFrame
    /\ rxFrame[1].from = UPGOV_ADDR
    /\ STFrame(rxFrame)
    /\ currentState = "START_UP"

\* C23: a tick applies the frame it received before it looks at button A:
\* with GroundState READY, a tick that processes ST:ARMED and in which button
\* A reports a release sends "disarm" and no "arm"; likewise with ARMED and
\* ST:READY it sends "arm" and no "disarm".
C23_FrameAppliedBeforeButtons ==
    [][ /\ (/\ currentState = "READY" /\ step' = "tick" /\ ev'[BUTTON_A]
            /\ Decoded(decoded', P_ST) /\ Payload(decoded'[1]) = S_ARMED) =>
              /\ Sends(sent', S_disarm, UPGOV_ADDR) = 1
              /\ Sends(sent', S_arm, UPGOV_ADDR) = 0
        /\ (/\ currentState = "ARMED" /\ step' = "tick" /\ ev'[BUTTON_A]
            /\ Decoded(decoded', P_ST) /\ Payload(decoded'[1]) = S_READY) =>
              /\ Sends(sent', S_arm, UPGOV_ADDR) = 1
              /\ Sends(sent', S_disarm, UPGOV_ADDR) = 0
      ]_vars

C23_Witness ==
    /\ step = "tick"
    /\ ev[BUTTON_A]
    /\ Decoded(decoded, P_ST)
    /\ Payload(decoded[1]) = S_ARMED
    /\ currentState = "ARMED"
    /\ Sends(sent, S_disarm, UPGOV_ADDR) = 1

\* The frames of a step that sendtoWait reported as not acknowledged.
Unacked(frames) == Cardinality({i \in 1..Len(frames) : ~frames[i].ack})

Filter(bs, lbs, ldt, b) == <<bs[b], lbs[b], ldt[b]>>

\* C24: in every tick each of the three buttons is polled exactly once.
C24_EveryButtonPolledOnce ==
    step = "tick" => \A b \in Buttons : polled[b] = 1

\* C24 as amended: in every tick button A is polled exactly once; button B
\* is polled once when PendingPrompt is set after the receive part and not at
\* all otherwise; button C is polled once when PendingPrompt is set and
\* button B reported no release, and not at all otherwise; a button that is
\* not polled keeps its filter state.
C24_PollsFollowPrompt ==
    [][ step' = "tick" =>
            /\ polled'[BUTTON_A] = 1
            /\ polled'[BUTTON_B] = (IF AT_Recieved' THEN 1 ELSE 0)
            /\ polled'[BUTTON_C] = (IF AT_Recieved' /\ ~ev'[BUTTON_B] THEN 1 ELSE 0)
            /\ \A b \in Buttons : polled'[b] = 0 =>
                  Filter(buttonStates', lastButtonStates', lastDebounceTime', b)
                      = Filter(buttonStates, lastButtonStates, lastDebounceTime, b)
      ]_vars

C24_Witness ==
    /\ step = "tick"
    /\ AT_Recieved
    /\ ev[BUTTON_B]
    /\ polled[BUTTON_C] = 0
    /\ lastButtonStates[BUTTON_C] = PRESSED
    /\ currentState = "ARMED"

\* C26: while PendingPrompt is false buttons B and C send nothing: a tick
\* that leaves it false sends no "again" and no "no" and reports no release
\* of B or C, and the filters of B and C are still as they were at start-up,
\* so that nothing of a press or release made before the AT: event is left to
\* be reported after it.
C26_NoAnswerWithoutPrompt ==
    ~AT_Recieved =>
        /\ Sends(sent, S_again, UPGOV_ADDR) = 0
        /\ Sends(sent, S_no, UPGOV_ADDR) = 0
        /\ ~ev[BUTTON_B] /\ ~ev[BUTTON_C]
        /\ \A b \in {BUTTON_B, BUTTON_C} :
              Filter(buttonStates, lastButtonStates, lastDebounceTime, b)
                  = <<NOT_PRESSED, NOT_PRESSED, 0>>

C26_Witness ==
    /\ step = "tick"
    /\ Decoded(decoded, P_AT)
    /\ AT_Recieved
    /\ lineNumber = 4
    /\ ev[BUTTON_A]
    /\ ~ev[BUTTON_B]
    /\ Len(sent) = 1
    /\ CStr(sent[1].data) = S_arm

\* C27: every frame transmitted is addressed to the peer; a handshake pass
\* transmits "connect" and nothing else, a tick transmits nothing but arm,
\* disarm, again and no, and no other step transmits.
C27_OnlyBareCommandsToPeer ==
    /\ \A i \in 1..Len(sent) : sent[i].to = UPGOV_ADDR
    /\ step = "attempt" => (Len(sent) = 1 /\ CStr(sent[1].data) = S_connect)
    /\ step = "tick" => \A i \in 1..Len(sent) : CStr(sent[i].data) \in Commands
    /\ step \notin {"attempt", "tick"} => sent = <<>>

C27_Witness ==
    /\ step = "tick"
    /\ Decoded(decoded, P_AT)
    /\ Len(sent) = 2
    /\ CStr(sent[1].data) = S_disarm
    /\ CStr(sent[2].data) = S_again

\* The tags of the tag table, and whether a frame decodes: it has 3 bytes or
\* more and begins with one of them.
Tags == {P_MS, P_ER, P_ST, P_AL, P_AC, P_DU, P_AT, P_B1, P_B2}
Decodes(data) == Len(data) >= PREFIX_LEN /\ SubSeq(data, 1, PREFIX_LEN) \in Tags

\* C21: a tick that receives a frame that fails to decode, because it is
\* shorter than 3 bytes or because its tag is not in the tag table, appends
\* exactly one line, "Invalid message", to the log, changes neither
\* GroundState nor BatteryState nor PendingPrompt nor display B, and
\* transmits nothing.
C21_DecodeFailureLoggedOnce ==
    [][ (step' = "tick" /\ rxFrame' # NoFrame /\ ~Decodes(rxFrame'[1].data)) =>
            /\ appended' = Append(appended, S_InvalidMessage)
            /\ currentState' = currentState
            /\ currentBatteryStatus' = currentBatteryStatus
            /\ AT_Recieved' = AT_Recieved
            /\ oledData' = oledData
            /\ sent' = <<>>
      ]_vars

\* The entities a frame is applied to.
Entities(app) ==
    <<app.currentState, app.currentBatteryStatus, app.AT_Recieved,
      app.log.lineNumber, app.log.lineMessage>>

\* C30: loop() does not look at the origin of a frame: in every state of the
\* dispatch loop a frame delivered from the peer address and the same frame
\* delivered from another address leave the same GroundState, BatteryState,
\* PendingPrompt and log; and a tick that received an ST: or AT: frame from
\* an address other than the peer's has applied it.
C30_OriginNotChecked ==
    /\ pc = "loop" =>
          \A d \in FrameData :
             \A g \in GarbageFor(<<[from |-> UPGOV_ADDR, data |-> d]>>) :
                Entities(Receive(TheApp, <<[from |-> UPGOV_ADDR, data |-> d]>>, g))
                    = Entities(Receive(TheApp, <<[from |-> OTHER_ADDR, data |-> d]>>, g))
    /\ (step = "tick" /\ rxFrame # NoFrame /\ rxFrame[1].from # UPGOV_ADDR) =>
          /\ Decoded(decoded, P_ST) => currentState = StateOf(Payload(decoded[1]))
          /\ Decoded(decoded, P_AT) =>
                (AT_Recieved /\ appended[Len(appended)] = S_LauchAgain)

C30_Witness ==
    /\ step = "tick"
    /\ rxFrame # NoFrame
    /\ rxFrame[1].from = OTHER_ADDR
    /\ Decoded(decoded, P_ST)
    /\ currentState = "ARMED"
    /\ AT_Recieved


\* A release of button C that the tick just made held back: button B
\* reported a release, button C was not polled, and C's filter holds pressed
\* as the stable level with released samples older than the window.
HeldBack ==
    /\ step = "tick"
    /\ ev[BUTTON_B]
    /\ polled[BUTTON_C] = 0
    /\ buttonStates[BUTTON_C] = PRESSED
    /\ lastButtonStates[BUTTON_C] = NOT_PRESSED
    /\ (now - LOOP_DELAY) - lastDebounceTime[BUTTON_C] > DEBOUNCE_DELAY

\* C31: a tick sends at most one of "again" and "no", and button B comes
\* first: in a tick where button B reports a release button C is not polled,
\* reports nothing, no "no" is sent and C's filter is left as it was; a
\* release of C that was due in such a tick is kept (the stable level of C
\* stays pressed until a release of C is reported) and is reported, with
\* "no" sent, in the next tick that polls C and samples it released.
C31_ButtonBFirstCKept ==
    [][ step' = "tick" =>
            /\ Sends(sent', S_again, UPGOV_ADDR) + Sends(sent', S_no, UPGOV_ADDR) <= 1
            /\ ev'[BUTTON_B] =>
                  /\ polled'[BUTTON_C] = 0
                  /\ ~ev'[BUTTON_C]
                  /\ Sends(sent', S_no, UPGOV_ADDR) = 0
                  /\ Filter(buttonStates', lastButtonStates', lastDebounceTime', BUTTON_C)
                        = Filter(buttonStates, lastButtonStates, lastDebounceTime, BUTTON_C)
            /\ (buttonStates[BUTTON_C] = PRESSED /\ ~ev'[BUTTON_C]) =>
                  buttonStates'[BUTTON_C] = PRESSED
            /\ (HeldBack /\ polled'[BUTTON_C] = 1
                 /\ lastButtonStates'[BUTTON_C] = NOT_PRESSED) =>
                  /\ ev'[BUTTON_C]
                  /\ Sends(sent', S_no, UPGOV_ADDR) = 1
      ]_vars

C31_Witness ==
    /\ step = "tick"
    /\ AT_Recieved
    /\ ev[BUTTON_C]
    /\ polled[BUTTON_C] = 1
    /\ Sends(sent, S_no, UPGOV_ADDR) = 1
    /\ answers = 2
    /\ buttonStates[BUTTON_B] = NOT_PRESSED
    /\ lastDebounceTime[BUTTON_B] = lastDebounceTime[BUTTON_C]
    /\ now - lastDebounceTime[BUTTON_C] > 2 * (DEBOUNCE_DELAY + LOOP_DELAY)


\* C32: a press is committed as the stable level only by a poll that finds
\* the samples pressed and unchanged for longer than the window, so a press
\* whose pressed samples never last that long (a short press, or one seen
\* only as bounces) leaves the stable level released; a release event comes
\* only from a poll that found pressed as the stable level, and the release
\* of a press that was not committed produces none.
C32_OnlyCommittedPressReleases ==
    [][ \A b \in Buttons :
            /\ (buttonStates[b] = NOT_PRESSED /\ buttonStates'[b] = PRESSED) =>
                  /\ obs'[b].level = PRESSED
                  /\ obs'[b].lastPoll - obs'[b].since > DEBOUNCE_DELAY
            /\ (/\ obs'[b].level = PRESSED
                 /\ obs'[b].stable0 = NOT_PRESSED
                 /\ obs'[b].lastPoll - obs'[b].since <= DEBOUNCE_DELAY) =>
                  buttonStates'[b] = NOT_PRESSED
            /\ ev'[b] =>
                  /\ buttonStates[b] = PRESSED
                  /\ obs'[b].level = NOT_PRESSED
            /\ (obs'[b].level = NOT_PRESSED /\ obs'[b].stable0 = NOT_PRESSED) =>
                  /\ ~ev'[b]
                  /\ obs'[b].events = 0
                  /\ buttonStates'[b] = NOT_PRESSED
      ]_vars

C32_Witness ==
    \E b \in Buttons :
        LET o == obs[b]
        IN  /\ Bounced(o)
            /\ o.runs[1].level = PRESSED
            /\ o.runs[1].stable0 = NOT_PRESSED
            /\ o.runs[3].stable0 = NOT_PRESSED
            /\ o.stable0 = NOT_PRESSED
            /\ o.lastPoll - o.since > DEBOUNCE_DELAY
            /\ o.events = 0
            /\ buttonStates[b] = NOT_PRESSED


\* What one tick may do to the filter of button b: the time of the last
\* sample change moves exactly when the sample kept changes, the stable
\* level changes only to a sample kept from before the tick, and a release
\* is reported exactly when the stable level goes from pressed to released.
FilterStep(b) ==
    /\ lastDebounceTime'[b] >= lastDebounceTime[b]
    /\ (lastButtonStates'[b] = lastButtonStates[b])
          <=> (lastDebounceTime'[b] = lastDebounceTime[b])
    /\ buttonStates'[b] # buttonStates[b] =>
          /\ buttonStates'[b] = lastButtonStates'[b]
          /\ lastButtonStates'[b] = lastButtonStates[b]
    /\ ev'[b] <=> (buttonStates[b] = PRESSED /\ buttonStates'[b] = NOT_PRESSED)

\* A release of button b that is due: pressed is the stable level and the
\* samples have been released for longer than the window.
ReleaseDue(b) ==
    /\ buttonStates[b] = PRESSED
    /\ lastButtonStates[b] = NOT_PRESSED
    /\ now - lastDebounceTime[b] > DEBOUNCE_DELAY

\* The number of prompt lines among the lines logged so far.
PromptLines(hist) == Cardinality({i \in 1..Len(hist) : hist[i] = S_LauchAgain})

\* C33: a tick that receives an AT: message while PendingPrompt is already
\* set leaves it set and appends exactly one more prompt line to the log;
\* GroundState, BatteryState and display B stay as they were, so nothing
\* records how many AT: events have come; and the filters of the buttons
\* go on from what they held before the tick: button B is polled as in any
\* tick of an open prompt, and a release of B that was due is reported in
\* this tick and answered with "again".
C33_SecondATOnlyLogs ==
    [][ (AT_Recieved /\ step' = "tick" /\ Decoded(decoded', P_AT)) =>
            /\ AT_Recieved'
            /\ appended' = appended \o <<S_LauchAgain>>
            /\ [lineNumber |-> lineNumber', lineMessage |-> lineMessage']
                  = printOledMessage(TheLog, S_LauchAgain)
            /\ currentState' = currentState
            /\ currentBatteryStatus' = currentBatteryStatus
            /\ oledData' = oledData
            /\ polled'[BUTTON_B] = 1
            /\ \A b \in Buttons : FilterStep(b)
            /\ (ReleaseDue(BUTTON_B) /\ lastButtonStates'[BUTTON_B] = NOT_PRESSED) =>
                  /\ ev'[BUTTON_B]
                  /\ Sends(sent', S_again, UPGOV_ADDR) = 1
      ]_vars

C33_Witness ==
    /\ step = "tick"
    /\ Decoded(decoded, P_AT)
    /\ AT_Recieved
    /\ PromptLines(appended) >= 2
    /\ ev[BUTTON_B]
    /\ Sends(sent, S_again, UPGOV_ADDR) = 1

====
